---- MODULE Spec2Model ----
(***************************************************************************)
(* Model of the average-auction aggregation core of src/structs.rs:        *)
(*   AvgVec  - the per-item store of two DashMap<i64, AvgAh> mappings      *)
(*             (auctions, bins) with update, get_sales and get_average;    *)
(*   AvgSum  - the cumulative (sum: i64, count: i32) accumulator with      *)
(*             update and get_average.                                     *)
(*                                                                         *)
(* Numbers.  Prices (f64) and sales (f32) are drawn from small integers,   *)
(* for which every sum the code forms is exact in f32/f64.  A quotient     *)
(* sum / len is kept as the reduced fraction [n, d]; 0.0 / 0.0 is NaN,     *)
(* written [n |-> 0, d |-> 0], and x / 0.0 for x # 0 is an infinity,       *)
(* written [n |-> +-1, d |-> 0].  i64 and i32 are scaled down to the       *)
(* ranges -(I64Max+1)..I64Max and -(I32Max+1)..I32Max.                     *)
(***************************************************************************)
EXTENDS Integers, Sequences, FiniteSets, TLC

\* ---------------------------------------------------------------- bounds
MaxTime == 2
I64Max == 7
I32Max == 3
MaxFold == 3

\* The factor of the dominance test, structs.rs:174 and :176.
DominanceFactor == 10

Times == 1 .. MaxTime
\* The AvgAh samples handed to from and update (item_id plays no part here).
Samples ==
    { [price |-> 1, sales |-> 0],
      [price |-> 1, sales |-> 1],
      [price |-> 2, sales |-> 1],
      [price |-> 2, sales |-> DominanceFactor] }
\* usize channel indexes handed to update: 0, 1 and one more.
IdxVals == {0, 1, 2}

VARIABLES
    auctions,        \* AvgVec.auctions: time_t -> AvgAh
    bins,            \* AvgVec.bins: time_t -> AvgAh
    last,            \* history: per channel, the latest sample inserted at each time_t
    ret,             \* what the most recent AvgVec call returned
    overflow_checks, \* build profile: TRUE when integer overflow panics
    acc,             \* AvgSum merged in arrival order
    acc2,            \* AvgSum merged from the same arguments in another order
    part,            \* AvgSum holding a partial fold that is later combined into acc2
    pending,         \* arguments acc2 has not merged yet (index -> <<sum, count>>)
    fed,             \* number of arguments handed out so far
    tsum,            \* history: unbounded total of the sums handed out
    tcount,          \* history: unbounded total of the counts handed out
    sret,            \* what the most recent AvgSum call returned
    locks,           \* DashMap shard locks: map -> shard -> [w: writer, r: readers]
    prod,            \* the producers' insert calls: position and arguments
    avg,             \* a get_average call running beside them: position and locals
    sal,             \* a get_sales call running beside them: position and locals
    obs              \* history of the concurrent run (what the reads overlapped and saw)

vecVars == <<auctions, bins, last, ret>>
sumVars == <<overflow_checks, acc, acc2, part, pending, fed, tsum, tcount, sret>>
concVars == <<locks, prod, avg, sal, obs>>
vars == <<auctions, bins, last, ret, overflow_checks, acc, acc2, part, pending,
          fed, tsum, tcount, sret, locks, prod, avg, sal, obs>>

\* ------------------------------------------------------------ f64 values
Abs(x) == IF x < 0 THEN -x ELSE x

RECURSIVE GCD(_, _)
GCD(a, b) == IF b = 0 THEN a ELSE GCD(b, a % b)

NaN == [n |-> 0, d |-> 0]

IsNaN(x) == x.n = 0 /\ x.d = 0

\* f64 division of a sum by a length (len() as f64 is never negative).
FDiv(s, len) ==
    IF len = 0
    THEN IF s = 0 THEN NaN ELSE [n |-> IF s > 0 THEN 1 ELSE -1, d |-> 0]
    ELSE LET g == GCD(Abs(s), len)
         IN [n |-> s \div g, d |-> len \div g]

\* x < y on f64: false as soon as one side is NaN.
FLt(x, y) ==
    /\ ~IsNaN(x)
    /\ ~IsNaN(y)
    /\ IF x.d = 0 /\ y.d = 0 THEN x.n < y.n ELSE x.n * y.d < y.n * x.d

FMin_PropagateNaN(x, y) == IF FLt(x, y) THEN x ELSE y

\* f64::min: when one argument is NaN the other is returned.
FMin(x, y) ==
    IF IsNaN(x) THEN y
    ELSE IF IsNaN(y) THEN x
    ELSE IF FLt(y, x) THEN y ELSE x

\* ------------------------------------------------------------ AvgVec
EmptyMap == [t \in {} |-> 0]

\* DashMap::insert: the entry at key k becomes v, whether or not k was present.
MapInsert(m, k, v) == [t \in DOMAIN m \cup {k} |-> IF t = k THEN v ELSE m[t]]

\* The loops of get_average: one pass over a map adding up a field.
RECURSIVE SumPrice(_, _)
SumPrice(m, keys) ==
    IF keys = {} THEN 0
    ELSE LET k == CHOOSE x \in keys : TRUE
         IN m[k].price + SumPrice(m, keys \ {k})

RECURSIVE SumSales(_, _)
SumSales(m, keys) ==
    IF keys = {} THEN 0
    ELSE LET k == CHOOSE x \in keys : TRUE
         IN m[k].sales + SumSales(m, keys \ {k})

AvgSelect_NoDominance(aavg, asales, bavg, bsales, old_method) == FMin(aavg, bavg)

AvgSelect_AuctionOnly(aavg, asales, bavg, bsales, old_method) ==
    IF ~old_method /\ asales > bsales * DominanceFactor THEN aavg
    ELSE FMin(aavg, bavg)

AvgSelect_GreaterEqual(aavg, asales, bavg, bsales, old_method) ==
    IF ~old_method /\ asales >= bsales * DominanceFactor THEN aavg
    ELSE IF ~old_method /\ bsales >= asales * DominanceFactor THEN bavg
    ELSE FMin(aavg, bavg)

AvgSelect_FlagIgnored(aavg, asales, bavg, bsales, old_method) ==
    IF asales > bsales * DominanceFactor THEN aavg
    ELSE IF bsales > asales * DominanceFactor THEN bavg
    ELSE FMin(aavg, bavg)

\* The selection at the end of get_average.
AvgSelect(aavg, asales, bavg, bsales, old_method) ==
    IF ~old_method /\ asales > bsales * DominanceFactor THEN aavg
    ELSE IF ~old_method /\ bsales > asales * DominanceFactor THEN bavg
    ELSE FMin(aavg, bavg)

\* AvgVec::get_average(&self, old_method) on the store (a, b).
AvgVec_get_average(a, b, old_method) ==
    LET auctions_sum == SumPrice(a, DOMAIN a)
        auctions_sales == SumSales(a, DOMAIN a)
        bins_sum == SumPrice(b, DOMAIN b)
        bins_sales == SumSales(b, DOMAIN b)
        auctions_average == FDiv(auctions_sum, Cardinality(DOMAIN a))
        bins_average == FDiv(bins_sum, Cardinality(DOMAIN b))
    IN AvgSelect(auctions_average, auctions_sales, bins_average, bins_sales, old_method)

MergeBin_Overwrite(merged, k, sales) == MapInsert(merged, k, sales)

\* One iteration of the second loop of get_sales.
MergeBin(merged, k, sales) ==
    IF k \in DOMAIN merged
    THEN [merged EXCEPT ![k] = @ + sales]
    ELSE MapInsert(merged, k, sales)

RECURSIVE MergeBins(_, _, _)
MergeBins(merged, b, keys) ==
    IF keys = {} THEN merged
    ELSE LET k == CHOOSE x \in keys : TRUE
         IN MergeBins(MergeBin(merged, k, b[k].sales), b, keys \ {k})

\* The map `merged` of get_sales once both loops have run.
MergedSales(a, b) == MergeBins([t \in DOMAIN a |-> a[t].sales], b, DOMAIN b)

\* The orders in which iterating a map with key set S can visit its keys.
Orders(S) ==
    {o \in [1 .. Cardinality(S) -> S] : \A i, j \in DOMAIN o : i # j => o[i] # o[j]}

Channel(idx) == IF idx = 0 THEN "Auction" ELSE "BuyItNow"

Insert_KeepFirst(m, k, v) == IF k \in DOMAIN m THEN m ELSE MapInsert(m, k, v)

\* The insert of AvgVec::update into the map it selected.
Insert(m, k, v) == MapInsert(m, k, v)

AvgVec_update_IdxOneIsBins(avg_ah, time_t, idx) ==
    /\ IF idx = 1
       THEN /\ bins' = Insert(bins, time_t, avg_ah)
            /\ auctions' = auctions
       ELSE /\ auctions' = Insert(auctions, time_t, avg_ah)
            /\ bins' = bins
    /\ last' = [last EXCEPT ![Channel(idx)] = MapInsert(@, time_t, avg_ah)]
    /\ ret' = [op |-> "update",
               replaced |-> time_t \in DOMAIN (IF idx = 1 THEN bins ELSE auctions)]
    /\ UNCHANGED sumVars
    /\ UNCHANGED concVars

\* AvgVec::update(self, avg_ah, time_t, idx)
AvgVec_update(avg_ah, time_t, idx) ==
    /\ IF idx = 0
       THEN /\ auctions' = Insert(auctions, time_t, avg_ah)
            /\ bins' = bins
       ELSE /\ bins' = Insert(bins, time_t, avg_ah)
            /\ auctions' = auctions
    /\ last' = [last EXCEPT ![Channel(idx)] = MapInsert(@, time_t, avg_ah)]
    /\ ret' = [op |-> "update",
               replaced |-> time_t \in DOMAIN (IF idx = 0 THEN auctions ELSE bins)]
    /\ UNCHANGED sumVars
    /\ UNCHANGED concVars

Update ==
    \E avg_ah \in Samples, time_t \in Times, idx \in IdxVals :
        AvgVec_update(avg_ah, time_t, idx)

\* AvgVec::from(avg_ah, time_t, idx): a new store holding one sample.
AvgVec_from ==
    \E avg_ah \in Samples, time_t \in Times, idx \in IdxVals :
        /\ IF idx = 0
           THEN /\ auctions' = Insert(EmptyMap, time_t, avg_ah)
                /\ bins' = EmptyMap
           ELSE /\ bins' = Insert(EmptyMap, time_t, avg_ah)
                /\ auctions' = EmptyMap
        /\ last' = [c \in {"Auction", "BuyItNow"} |->
                      IF c = Channel(idx) THEN MapInsert(EmptyMap, time_t, avg_ah)
                      ELSE EmptyMap]
        /\ ret' = [op |-> "from"]
        /\ UNCHANGED sumVars
        /\ UNCHANGED concVars

GetAverage ==
    \E old_method \in BOOLEAN :
        /\ ret' = [op |-> "get_average", old_method |-> old_method,
                   outcome |-> "returned",
                   value |-> AvgVec_get_average(auctions, bins, old_method)]
        /\ UNCHANGED <<auctions, bins, last>>
        /\ UNCHANGED sumVars
        /\ UNCHANGED concVars

GetSales ==
    LET merged == MergedSales(auctions, bins)
    IN \E o \in Orders(DOMAIN merged) :
        /\ ret' = [op |-> "get_sales", outcome |-> "returned",
                   value |-> [i \in DOMAIN o |-> merged[o[i]]]]
        /\ UNCHANGED <<auctions, bins, last>>
        /\ UNCHANGED sumVars
        /\ UNCHANGED concVars

\* ------------------------------------------------------------ AvgSum
I64Min == -(I64Max + 1)
I32Min == -(I32Max + 1)

InI64(x) == I64Min <= x /\ x <= I64Max
InI32(x) == I32Min <= x /\ x <= I32Max

\* Two's-complement wrap-around into the i64 / i32 range.
Wrap64(x) == ((x - I64Min) % (2 * (I64Max + 1))) + I64Min
Wrap32(x) == ((x - I32Min) % (2 * (I32Max + 1))) + I32Min

\* The (sum, count) arguments handed to AvgSum::update.
SumVals == {-1, 1, I64Max}
CountVals == {-1, 0, 1, I32Max}

Zero == [sum |-> 0, count |-> 0, ok |-> TRUE]

\* An accumulator lost to a panic inside update (self was moved into the call).
Panicked == [sum |-> 0, count |-> 0, ok |-> FALSE]

\* AvgSum::update(self, sum, count): `+=` panics on overflow when the build has
\* overflow checks on and wraps around when it has not.
AvgSum_update(self, sum, count) ==
    IF overflow_checks /\ ~InI64(self.sum + sum) THEN Panicked
    ELSE IF overflow_checks /\ ~InI32(self.count + count) THEN Panicked
    ELSE [sum |-> Wrap64(self.sum + sum),
          count |-> Wrap32(self.count + count),
          ok |-> TRUE]

\* Integer division truncating toward zero (b # 0).
TruncDiv(a, b) ==
    IF (a >= 0) = (b > 0) THEN Abs(a) \div Abs(b) ELSE -(Abs(a) \div Abs(b))

FloorDiv(a, b) == IF b > 0 THEN a \div b ELSE (-a) \div (-b)

AvgSum_get_average_Floor(self) ==
    IF self.count = 0 THEN [outcome |-> "panicked"]
    ELSE IF self.sum = I64Min /\ self.count = -1 THEN [outcome |-> "panicked"]
    ELSE [outcome |-> "returned", value |-> FloorDiv(self.sum, self.count)]

AvgSum_get_average_ZeroOnEmpty(self) ==
    IF self.count = 0 THEN [outcome |-> "returned", value |-> 0]
    ELSE IF self.sum = I64Min /\ self.count = -1 THEN [outcome |-> "panicked"]
    ELSE [outcome |-> "returned", value |-> TruncDiv(self.sum, self.count)]

\* AvgSum::get_average(&self): i64 division panics on a zero divisor and on
\* i64::MIN / -1, in every build.
AvgSum_get_average(self) ==
    IF self.count = 0 THEN [outcome |-> "panicked"]
    ELSE IF self.sum = I64Min /\ self.count = -1 THEN [outcome |-> "panicked"]
    ELSE [outcome |-> "returned", value |-> TruncDiv(self.sum, self.count)]

NoPart == [sum |-> 0, count |-> 0, ok |-> TRUE, n |-> 0]

\* A period's (sum, count) arrives: acc merges it at once (unless an earlier
\* merge has panicked and the fold is gone), the second fold keeps it for later.
Feed ==
    \E sum \in SumVals, count \in CountVals :
        /\ fed < MaxFold
        /\ acc' = IF acc.ok THEN AvgSum_update(acc, sum, count) ELSE acc
        /\ pending' = MapInsert(pending, fed + 1, <<sum, count>>)
        /\ fed' = fed + 1
        /\ tsum' = tsum + sum
        /\ tcount' = tcount + count
        /\ sret' = [op |-> "update"]
        /\ UNCHANGED <<overflow_checks, acc2, part>>
        /\ UNCHANGED vecVars
        /\ UNCHANGED concVars

Without(m, k) == [t \in DOMAIN m \ {k} |-> m[t]]

\* The second fold merges one of the arguments it still holds, in any order.
MergeLater ==
    \E i \in DOMAIN pending :
        /\ acc2.ok
        /\ acc2' = AvgSum_update(acc2, pending[i][1], pending[i][2])
        /\ pending' = Without(pending, i)
        /\ sret' = [op |-> "update"]
        /\ UNCHANGED <<overflow_checks, acc, part, fed, tsum, tcount>>
        /\ UNCHANGED vecVars
        /\ UNCHANGED concVars

\* A partial fold, started from AvgSum { sum: 0, count: 0 }, merges one of them.
MergePartial ==
    \E i \in DOMAIN pending :
        /\ part.ok
        /\ part' = [n |-> part.n + 1] @@
                   AvgSum_update([sum |-> part.sum, count |-> part.count, ok |-> TRUE],
                                 pending[i][1], pending[i][2])
        /\ pending' = Without(pending, i)
        /\ sret' = [op |-> "update"]
        /\ UNCHANGED <<overflow_checks, acc, acc2, fed, tsum, tcount>>
        /\ UNCHANGED vecVars
        /\ UNCHANGED concVars

\* The partial fold is combined into the second fold.
Combine ==
    /\ part.n > 0
    /\ part.ok
    /\ acc2.ok
    /\ acc2' = AvgSum_update(acc2, part.sum, part.count)
    /\ part' = NoPart
    /\ sret' = [op |-> "update"]
    /\ UNCHANGED <<overflow_checks, acc, pending, fed, tsum, tcount>>
    /\ UNCHANGED vecVars
    /\ UNCHANGED concVars

GetAverageSum ==
    /\ acc.ok
    /\ sret' = [op |-> "get_average"] @@ AvgSum_get_average(acc)
    /\ UNCHANGED <<overflow_checks, acc, acc2, part, pending, fed, tsum, tcount>>
    /\ UNCHANGED vecVars
    /\ UNCHANGED concVars

SumStart ==
    /\ acc = Zero
    /\ acc2 = Zero
    /\ part = NoPart
    /\ pending = EmptyMap
    /\ fed = 0
    /\ tsum = 0
    /\ tcount = 0
    /\ sret = [op |-> "new"]

SumInit == overflow_checks = FALSE /\ SumStart

\* ------------------------------------------- AvgVec under concurrent calls
\* Producers insert into one store through the two DashMaps while a
\* get_average call and a get_sales call read it.  A DashMap is a fixed array
\* of shards, each a hash table behind its own read-write lock: insert holds
\* the write lock of the key's shard for the duration of the store; an
\* iterator takes the read lock of one shard after the other, letting go of a
\* shard's lock only once it holds the next one's, and of the last one's when
\* the loop ends; len takes and drops each shard's read lock in turn.
Maps == {"auctions", "bins"}
Shards == {0, 1}
NShards == Cardinality(Shards)
ShardOf(t) == t % NShards

Producers == {"p1", "p2"}
ConcSamples == {[price |-> 1, sales |-> 1], [price |-> 2, sales |-> DominanceFactor]}
ConcIdx == {0, 1}

MapVal(m) == IF m = "auctions" THEN auctions ELSE bins

ShardKeys(mv, s) == {t \in DOMAIN mv : ShardOf(t) = s}

NoLocks == [m \in Maps |-> [s \in Shards |-> [w |-> "none", r |-> {}]]]

CanRead_IgnoresWriter(m, s) == TRUE

\* A shard's read lock can be taken when no writer holds the shard.
CanRead(m, s) == locks[m][s].w = "none"

\* A shard's write lock can be taken when nobody holds the shard.
CanWrite(m, s) == locks[m][s].w = "none" /\ locks[m][s].r = {}

\* The iterator of `who` takes the read lock of shard s of map m and then lets
\* go of the shard before it.
ReadShift(l, m, s, who) ==
    [l EXCEPT ![m] =
        [x \in Shards |->
            IF x = s THEN [l[m][x] EXCEPT !.r = @ \cup {who}]
            ELSE IF x = s - 1 THEN [l[m][x] EXCEPT !.r = @ \ {who}]
            ELSE l[m][x]]]

\* The iterator of `who` is dropped: the read lock of shard s of map m goes.
ReadDrop(l, m, s, who) == [l EXCEPT ![m][s].r = @ \ {who}]

SelectMap_AlwaysAuctions(idx) == "auctions"

\* The map AvgVec::update inserts into.
SelectMap(idx) == IF idx = 0 THEN "auctions" ELSE "bins"

SetMap(m, mv) ==
    IF m = "auctions"
    THEN auctions' = mv /\ bins' = bins
    ELSE bins' = mv /\ auctions' = auctions

\* The complete samples producers have been asked to insert at key t of map m.
Written(m, t) ==
    {prod[q].avg_ah : q \in {x \in Producers :
        /\ prod[x].pc # "idle"
        /\ (IF prod[x].idx = 0 THEN "auctions" ELSE "bins") = m
        /\ prod[x].time_t = t}}

\* Reading shard s of map m now would show a sample no producer inserted.
TornIn(m, s) == \E t \in ShardKeys(MapVal(m), s) : MapVal(m)[t] \notin Written(m, t)

IdleProd == [pc |-> "idle"]

\* A producer calls update(avg_ah, time_t, idx).
ProdStart(p) ==
    /\ prod[p].pc = "idle"
    /\ \E idx \in ConcIdx, time_t \in Times, avg_ah \in ConcSamples :
          prod' = [prod EXCEPT ![p] = [pc |-> "call", idx |-> idx,
                                        time_t |-> time_t, avg_ah |-> avg_ah]]
    /\ UNCHANGED <<locks, avg, sal, obs>>
    /\ UNCHANGED vecVars
    /\ UNCHANGED sumVars

\* insert takes the write lock of the key's shard.
ProdLock(p) ==
    /\ prod[p].pc = "call"
    /\ LET m == SelectMap(prod[p].idx)
           s == ShardOf(prod[p].time_t)
       IN /\ CanWrite(m, s)
          /\ locks' = [locks EXCEPT ![m][s].w = p]
    /\ prod' = [prod EXCEPT ![p].pc = "locked"]
    /\ UNCHANGED <<avg, sal, obs>>
    /\ UNCHANGED vecVars
    /\ UNCHANGED sumVars

\* Under the lock the sample is moved into the slot field by field: with the
\* key present, the price is overwritten first.
ProdStorePrice(p) ==
    /\ prod[p].pc = "locked"
    /\ LET m == SelectMap(prod[p].idx)
           t == prod[p].time_t
       IN IF t \in DOMAIN MapVal(m)
          THEN SetMap(m, [MapVal(m) EXCEPT ![t].price = prod[p].avg_ah.price])
          ELSE UNCHANGED <<auctions, bins>>
    /\ prod' = [prod EXCEPT ![p].pc = "half"]
    /\ UNCHANGED <<last, ret, locks, avg, sal, obs>>
    /\ UNCHANGED sumVars

\* The slot is complete, insert drops the write lock and update returns.
ProdStoreRest(p) ==
    /\ prod[p].pc = "half"
    /\ LET m == SelectMap(prod[p].idx)
           t == prod[p].time_t
           s == ShardOf(prod[p].time_t)
           running == avg.pc \notin {"idle", "done"}
       IN /\ SetMap(m, Insert(MapVal(m), t, prod[p].avg_ah))
          /\ locks' = [locks EXCEPT ![m][s].w = "none"]
          /\ obs' = IF running
                    THEN [obs EXCEPT !.overlap = IF @ < 2 THEN @ + 1 ELSE @,
                                     !.fresh = @ /\ t \notin DOMAIN MapVal(m)]
                    ELSE obs
    /\ prod' = [prod EXCEPT ![p].pc = "done"]
    /\ UNCHANGED <<last, ret, avg, sal>>
    /\ UNCHANGED sumVars

IdleAvg == [pc |-> "idle"]

\* get_average is called: the four accumulators start at 0.0.
AvgStart ==
    /\ avg.pc = "idle"
    /\ avg' = [pc |-> "iter", m |-> "auctions", s |-> 0,
               auctions_sum |-> 0, auctions_sales |-> 0,
               bins_sum |-> 0, bins_sales |-> 0,
               auctions_len |-> 0, bins_len |-> 0]
    /\ obs' = [obs EXCEPT !.snap = <<auctions, bins>>, !.overlap = 0, !.fresh = TRUE]
    /\ UNCHANGED <<locks, prod, sal>>
    /\ UNCHANGED vecVars
    /\ UNCHANGED sumVars

\* The loop over a map reaches its next shard and adds up that shard's entries.
AvgIter ==
    /\ avg.pc = "iter"
    /\ avg.s < NShards
    /\ CanRead(avg.m, avg.s)
    /\ locks' = ReadShift(locks, avg.m, avg.s, "avg")
    /\ LET mv == MapVal(avg.m)
           keys == ShardKeys(mv, avg.s)
       IN avg' = IF avg.m = "auctions"
                 THEN [avg EXCEPT !.s = @ + 1,
                                  !.auctions_sum = @ + SumPrice(mv, keys),
                                  !.auctions_sales = @ + SumSales(mv, keys)]
                 ELSE [avg EXCEPT !.s = @ + 1,
                                  !.bins_sum = @ + SumPrice(mv, keys),
                                  !.bins_sales = @ + SumSales(mv, keys)]
    /\ obs' = [obs EXCEPT !.torn = @ \/ TornIn(avg.m, avg.s)]
    /\ UNCHANGED <<prod, sal>>
    /\ UNCHANGED vecVars
    /\ UNCHANGED sumVars

\* A loop ends: its iterator is dropped; the bins loop or the len calls follow.
AvgIterEnd ==
    /\ avg.pc = "iter"
    /\ avg.s = NShards
    /\ locks' = ReadDrop(locks, avg.m, NShards - 1, "avg")
    /\ avg' = IF avg.m = "auctions"
              THEN [avg EXCEPT !.m = "bins", !.s = 0]
              ELSE [avg EXCEPT !.pc = "len", !.m = "auctions", !.s = 0]
    /\ UNCHANGED <<prod, sal, obs>>
    /\ UNCHANGED vecVars
    /\ UNCHANGED sumVars

\* self.auctions.len() and then self.bins.len(), one shard at a time.
AvgLen ==
    /\ avg.pc = "len"
    /\ CanRead(avg.m, avg.s)
    /\ LET n == Cardinality(ShardKeys(MapVal(avg.m), avg.s))
           counted == IF avg.m = "auctions"
                      THEN [avg EXCEPT !.auctions_len = @ + n]
                      ELSE [avg EXCEPT !.bins_len = @ + n]
       IN avg' = IF avg.s + 1 < NShards THEN [counted EXCEPT !.s = @ + 1]
                 ELSE IF avg.m = "auctions" THEN [counted EXCEPT !.m = "bins", !.s = 0]
                 ELSE [counted EXCEPT !.pc = "select"]
    /\ UNCHANGED <<locks, prod, sal, obs>>
    /\ UNCHANGED vecVars
    /\ UNCHANGED sumVars

\* The two divisions and the selection; get_average returns.
AvgReturn ==
    /\ avg.pc = "select"
    /\ \E old_method \in BOOLEAN :
          ret' = [op |-> "get_average", old_method |-> old_method,
                  outcome |-> "returned",
                  value |-> AvgSelect(FDiv(avg.auctions_sum, avg.auctions_len),
                                      avg.auctions_sales,
                                      FDiv(avg.bins_sum, avg.bins_len),
                                      avg.bins_sales, old_method)]
    /\ avg' = [pc |-> "done"]
    /\ obs' = [obs EXCEPT !.after = <<auctions, bins>>]
    /\ UNCHANGED <<auctions, bins, last, locks, prod, sal>>
    /\ UNCHANGED sumVars

IdleSal == [pc |-> "idle"]

MergedFree_SameMap(m, s) == CanWrite(m, s)

\* `merged` is a map of the call's own: its locks are always free.
MergedFree(m, s) == TRUE

\* get_sales is called: merged starts empty.
SalStart ==
    /\ sal.pc = "idle"
    /\ sal' = [pc |-> "iter", m |-> "auctions", s |-> 0, merged |-> EmptyMap]
    /\ UNCHANGED <<locks, prod, avg, obs>>
    /\ UNCHANGED vecVars
    /\ UNCHANGED sumVars

\* The loop over a map reaches its next shard.
SalAcquire ==
    /\ sal.pc = "iter"
    /\ sal.s < NShards
    /\ CanRead(sal.m, sal.s)
    /\ locks' = ReadShift(locks, sal.m, sal.s, "sales")
    /\ sal' = [sal EXCEPT !.pc = "body"]
    /\ UNCHANGED <<prod, avg, obs>>
    /\ UNCHANGED vecVars
    /\ UNCHANGED sumVars

\* The loop body on that shard's entries, run while the shard's read lock is
\* held: insert into merged (first loop), add to or insert into merged (second).
SalBody ==
    /\ sal.pc = "body"
    /\ MergedFree(sal.m, sal.s)
    /\ LET mv == MapVal(sal.m)
           keys == ShardKeys(mv, sal.s)
       IN sal' = [sal EXCEPT
                     !.pc = "iter",
                     !.s = @ + 1,
                     !.merged = IF sal.m = "auctions"
                                THEN [t \in DOMAIN @ \cup keys |->
                                         IF t \in keys THEN mv[t].sales ELSE @[t]]
                                ELSE MergeBins(@, mv, keys)]
    /\ obs' = [obs EXCEPT !.torn = @ \/ TornIn(sal.m, sal.s)]
    /\ UNCHANGED <<locks, prod, avg>>
    /\ UNCHANGED vecVars
    /\ UNCHANGED sumVars

\* The values of merged as a bag: value -> number of keys holding it.
ValueBag(merged) ==
    [v \in {merged[t] : t \in DOMAIN merged} |->
        Cardinality({t \in DOMAIN merged : merged[t] = v})]

\* A loop ends: its iterator is dropped; after the second loop the values of
\* merged are collected and get_sales returns.
SalIterEnd ==
    /\ sal.pc = "iter"
    /\ sal.s = NShards
    /\ locks' = ReadDrop(locks, sal.m, NShards - 1, "sales")
    /\ sal' = IF sal.m = "auctions"
              THEN [sal EXCEPT !.m = "bins", !.s = 0]
              ELSE [pc |-> "done", out |-> ValueBag(sal.merged)]
    /\ UNCHANGED <<prod, avg, obs>>
    /\ UNCHANGED vecVars
    /\ UNCHANGED sumVars

ConcInit ==
    /\ locks = NoLocks
    /\ prod = [p \in Producers |-> IdleProd]
    /\ avg = IdleAvg
    /\ sal = IdleSal
    /\ obs = [snap |-> <<EmptyMap, EmptyMap>>, after |-> <<EmptyMap, EmptyMap>>,
              overlap |-> 0, fresh |-> TRUE, torn |-> FALSE]

ProdRun(p) == ProdLock(p) \/ ProdStorePrice(p) \/ ProdStoreRest(p)

AvgRun == AvgIter \/ AvgIterEnd \/ AvgLen \/ AvgReturn

SalRun == SalAcquire \/ SalBody \/ SalIterEnd

NextConc ==
    \/ \E p \in Producers : ProdStart(p)
    \/ \E p \in Producers : ProdLock(p)
    \/ \E p \in Producers : ProdStorePrice(p)
    \/ \E p \in Producers : ProdStoreRest(p)
    \/ AvgStart
    \/ AvgIter
    \/ AvgIterEnd
    \/ AvgLen
    \/ AvgReturn
    \/ SalStart
    \/ SalAcquire
    \/ SalBody
    \/ SalIterEnd

VecInit ==
    /\ auctions = EmptyMap
    /\ bins = EmptyMap
    /\ last = [c \in {"Auction", "BuyItNow"} |-> EmptyMap]
    /\ ret = [op |-> "new"]

InitVec == VecInit /\ SumInit /\ ConcInit

NextVec ==
    \/ Update
    \/ AvgVec_from
    \/ GetAverage
    \/ GetSales

SpecVec == InitVec /\ [][NextVec]_vars

\* The writers alone: stores are built by from and update, nothing reads them.
NextWrite ==
    \/ Update
    \/ AvgVec_from

SpecWrite == InitVec /\ [][NextWrite]_vars

InitSum == VecInit /\ overflow_checks \in BOOLEAN /\ SumStart /\ ConcInit

NextSum ==
    \/ Feed
    \/ MergeLater
    \/ MergePartial
    \/ Combine
    \/ GetAverageSum

SpecSum == InitSum /\ [][NextSum]_vars

\* AvgSum::get_average as a function of the accumulator: every (sum, count) the
\* two fields can hold, then the call.
InitDiv ==
    /\ VecInit
    /\ overflow_checks = FALSE
    /\ acc \in [sum : I64Min .. I64Max, count : I32Min .. I32Max, ok : {TRUE}]
    /\ acc2 = Zero
    /\ part = NoPart
    /\ pending = EmptyMap
    /\ fed = 0
    /\ tsum = 0
    /\ tcount = 0
    /\ sret = [op |-> "new"]
    /\ ConcInit

NextDiv == GetAverageSum

SpecDiv == InitDiv /\ [][NextDiv]_vars

\* Two producers, one get_average and one get_sales on one store, interleaved.
SpecConc == InitVec /\ [][NextConc]_vars

\* Which sample an insert carries has no part in what it locks: for the
\* question whether calls return, every producer inserts the same sample.
ProdStartOne(p) ==
    /\ ProdStart(p)
    /\ prod'[p].avg_ah = [price |-> 1, sales |-> 1]

NextLocks ==
    \/ \E p \in Producers : ProdStartOne(p)
    \/ \E p \in Producers : ProdLock(p)
    \/ \E p \in Producers : ProdStorePrice(p)
    \/ \E p \in Producers : ProdStoreRest(p)
    \/ AvgStart
    \/ AvgIter
    \/ AvgIterEnd
    \/ AvgLen
    \/ AvgReturn
    \/ SalStart
    \/ SalAcquire
    \/ SalBody
    \/ SalIterEnd

\* Every call that has started is scheduled again and again until it returns:
\* each runs on a thread of its own, and a thread that can take a step does.
SpecConcFair ==
    /\ InitVec
    /\ [][NextLocks]_vars
    /\ \A p \in Producers : WF_vars(ProdRun(p))
    /\ WF_vars(AvgRun)
    /\ WF_vars(SalRun)

\* ------------------------------------------------ claims about AvgVec
\* The quantities the claims speak of, taken over the time buckets 1..MaxTime.
RECURSIVE TotalUpTo(_, _, _)
TotalUpTo(m, field, t) ==
    IF t = 0 THEN 0
    ELSE (IF t \in DOMAIN m THEN m[t][field] ELSE 0) + TotalUpTo(m, field, t - 1)

salesOf(m) == TotalUpTo(m, "sales", MaxTime)

\* Unweighted mean price of a non-empty channel, as a reduced fraction.
meanOf(m) ==
    LET s == TotalUpTo(m, "price", MaxTime)
        c == Cardinality(DOMAIN m)
        g == GCD(s, c)
    IN [n |-> s \div g, d |-> c \div g]

\* mean x is below mean y (both of non-empty channels).
MeanLess(x, y) == x.n * y.d < y.n * x.d

minMean == IF MeanLess(meanOf(bins), meanOf(auctions)) THEN meanOf(bins) ELSE meanOf(auctions)

BothNonEmpty == DOMAIN auctions # {} /\ DOMAIN bins # {}

AuctionDominates == salesOf(auctions) > DominanceFactor * salesOf(bins)

BinDominates == salesOf(bins) > DominanceFactor * salesOf(auctions)

Averaged(robust) == ret.op = "get_average" /\ ret.old_method = ~robust

\* C1: with both channels non-empty and Auction sales above 10 times the BuyItNow
\* sales, average(robust = true) returns the Auction mean, whatever the prices.
C1_AuctionDominanceReturnsAuctionMean ==
    (Averaged(TRUE) /\ BothNonEmpty /\ AuctionDominates)
        => (ret.outcome = "returned" /\ ret.value = meanOf(auctions))

\* C1 witness: Auction dominates, the BuyItNow mean is the lower one, and the
\* Auction mean came back.
C1_Witness ==
    /\ Averaged(TRUE) /\ BothNonEmpty /\ AuctionDominates
    /\ MeanLess(meanOf(bins), meanOf(auctions))
    /\ ret.value = meanOf(auctions)

\* C2: with both channels non-empty and BuyItNow sales above 10 times the Auction
\* sales, average(robust = true) returns the BuyItNow mean, also when the Auction
\* mean is lower.
C2_BinDominanceReturnsBinMean ==
    (Averaged(TRUE) /\ BothNonEmpty /\ BinDominates)
        => (ret.outcome = "returned" /\ ret.value = meanOf(bins))

\* C2 witness: BuyItNow dominates, the Auction mean is the lower one, and the
\* BuyItNow mean came back.
C2_Witness ==
    /\ Averaged(TRUE) /\ BothNonEmpty /\ BinDominates
    /\ MeanLess(meanOf(auctions), meanOf(bins))
    /\ ret.value = meanOf(bins)

\* C3: with both channels non-empty and neither channel dominating (the totals
\* may be exactly 10 to 1, or both 0), average(true) and average(false) both
\* return min(meanAuction, meanBin).
C3_NoDominanceReturnsMin ==
    (ret.op = "get_average" /\ BothNonEmpty /\ ~AuctionDominates /\ ~BinDominates)
        => (ret.outcome = "returned" /\ ret.value = minMean)

\* C3 witness: Auction sales are exactly 10 times the BuyItNow sales, the
\* Auction mean is the higher one, and the robust average is the BuyItNow mean.
C3_Witness ==
    /\ Averaged(TRUE) /\ BothNonEmpty
    /\ salesOf(bins) > 0
    /\ salesOf(auctions) = DominanceFactor * salesOf(bins)
    /\ MeanLess(meanOf(bins), meanOf(auctions))
    /\ ret.value = meanOf(bins)

\* C4: in legacy mode (old_method = true) the result is min(meanAuction, meanBin)
\* for every store with both channels non-empty, whatever the sales volumes.
C4_LegacyReturnsMin ==
    (Averaged(FALSE) /\ BothNonEmpty)
        => (ret.outcome = "returned" /\ ret.value = minMean)

\* C4 witness: legacy mode, Auction sales dominate, and the lower BuyItNow mean
\* is returned all the same.
C4_Witness ==
    /\ Averaged(FALSE) /\ BothNonEmpty /\ AuctionDominates
    /\ MeanLess(meanOf(bins), meanOf(auctions))
    /\ ret.value = meanOf(bins)

\* C5: when exactly one channel is empty, average returns the other channel's
\* mean for both flag values; the empty channel's 0/0 is never returned.
C5_OneEmptyReturnsOtherMean ==
    /\ (ret.op = "get_average" /\ DOMAIN auctions # {} /\ DOMAIN bins = {})
           => (ret.outcome = "returned" /\ ret.value = meanOf(auctions))
    /\ (ret.op = "get_average" /\ DOMAIN auctions = {} /\ DOMAIN bins # {})
           => (ret.outcome = "returned" /\ ret.value = meanOf(bins))

\* C5 witness: BuyItNow is empty, the Auction channel holds samples whose sales
\* total 0, and the Auction mean is returned.
C5_Witness ==
    /\ ret.op = "get_average"
    /\ DOMAIN auctions # {} /\ DOMAIN bins = {}
    /\ salesOf(auctions) = 0
    /\ ret.value = meanOf(auctions)

\* C6 (as claimed): average on a store with both channels empty ends in an
\* EmptyAggregateError and returns no value.
C6_EmptyStoreRaises ==
    (ret.op = "get_average" /\ DOMAIN auctions = {} /\ DOMAIN bins = {})
        => ret.outcome = "EmptyAggregateError"

\* C8: after any sequence of inserts each channel's mapping holds one entry per
\* time_t inserted into that channel, carrying the latest sample inserted
\* there, and a later average or combinedSales is computed from those alone.
C8_LastWriteWins ==
    /\ auctions = last["Auction"]
    /\ bins = last["BuyItNow"]
    /\ ret.op = "get_average"
           => ret.value = AvgVec_get_average(last["Auction"], last["BuyItNow"], ret.old_method)
    /\ ret.op = "get_sales"
           => Len(ret.value) = Cardinality(DOMAIN last["Auction"] \cup DOMAIN last["BuyItNow"])

\* C8 witness: an insert has just replaced the sample at a time_t that was
\* already present, and the mappings hold the latest samples.
C8_Witness ==
    /\ ret.op = "update" /\ ret.replaced
    /\ auctions = last["Auction"] /\ bins = last["BuyItNow"]
    /\ Cardinality(DOMAIN auctions) + Cardinality(DOMAIN bins) >= 2

\* The figure combinedSales owes for time bucket t.
salesAt(t) ==
    (IF t \in DOMAIN auctions THEN auctions[t].sales ELSE 0)
        + (IF t \in DOMAIN bins THEN bins[t].sales ELSE 0)

\* C9: combinedSales returns one figure per time_t of the union of the two key
\* sets: the sum of both channels' sales where both hold the time_t, the one
\* channel's sales otherwise.
C9_CombinedSalesPerTimestamp ==
    ret.op = "get_sales" =>
        LET keys == DOMAIN auctions \cup DOMAIN bins
        IN /\ ret.outcome = "returned"
           /\ Len(ret.value) = Cardinality(keys)
           /\ \E o \in Orders(keys) : \A i \in DOMAIN o : ret.value[i] = salesAt(o[i])

\* C9 witness: a time_t held by both channels with non-zero sales, another held
\* by one channel only, and both figures in the result.
C9_Witness ==
    /\ ret.op = "get_sales"
    /\ \E t, u \in Times :
          /\ t \in DOMAIN auctions \cap DOMAIN bins
          /\ auctions[t].sales > 0 /\ bins[t].sales > 0
          /\ u \in (DOMAIN auctions \cup DOMAIN bins) \ (DOMAIN auctions \cap DOMAIN bins)
          /\ \E i, j \in DOMAIN ret.value :
                /\ i # j
                /\ ret.value[i] = auctions[t].sales + bins[t].sales
                /\ ret.value[j] = salesAt(u)

\* ------------------------------------------------ claims about AvgSum
\* C7: average on an accumulator whose count is 0 fails explicitly and yields
\* no number, whatever the sum, fresh or reached by merges.
C7_ZeroCountFails ==
    (sret.op = "get_average" /\ acc.count = 0)
        => (sret.outcome = "panicked" /\ DOMAIN sret = {"op", "outcome"})

\* C7 witness: merges whose counts total 0 left a non-zero sum, and average
\* failed on it.
C7_Witness ==
    /\ sret.op = "get_average"
    /\ fed >= 2
    /\ tcount = 0
    /\ acc.count = 0
    /\ acc.sum # 0
    /\ sret.outcome = "panicked"

\* Every argument handed out has been merged by the second fold, any partial
\* fold included.
AllMerged == DOMAIN pending = {} /\ part.n = 0

\* C10 (as claimed): folding the same (sum, count) pairs in any order, or as
\* partial folds combined later, ends with the same (sum, count), the
\* component-wise totals.  Stated where the claim is at its most favourable:
\* for arguments whose totals fit i64 and i32.
C10_FoldOrderIndependent ==
    (AllMerged /\ InI64(tsum) /\ InI32(tcount)) =>
        /\ acc.ok /\ acc2.ok
        /\ acc2.sum = acc.sum /\ acc2.count = acc.count
        /\ acc.sum = tsum /\ acc.count = tcount

\* q is a / b with the fractional part discarded (b # 0).
IsTruncated(q, a, b) ==
    /\ Abs(q) * Abs(b) <= Abs(a)
    /\ Abs(a) < (Abs(q) + 1) * Abs(b)
    /\ q > 0 => (a > 0) = (b > 0)
    /\ q < 0 => (a > 0) # (b > 0)

\* C11 (as claimed): for every accumulator with count # 0, average returns
\* sum / count truncated toward zero.
C11_TruncatesForEveryNonZeroCount ==
    (sret.op = "get_average" /\ acc.count # 0)
        => (sret.outcome = "returned" /\ IsTruncated(sret.value, acc.sum, acc.count))

\* C11 (amended): for every accumulator with count # 0 other than
\* (sum = i64::MIN, count = -1), average returns sum / count truncated toward
\* zero; at (i64::MIN, -1), whose quotient does not fit i64, the call panics.
C11_TruncatesUnlessQuotientOverflows ==
    /\ (sret.op = "get_average" /\ acc.count # 0
            /\ ~(acc.sum = I64Min /\ acc.count = -1))
           => (sret.outcome = "returned" /\ IsTruncated(sret.value, acc.sum, acc.count))
    /\ (sret.op = "get_average" /\ acc.sum = I64Min /\ acc.count = -1)
           => sret.outcome = "panicked"

\* C11 witness: sum = -7, count = 2 gave -3.
C11_Witness ==
    /\ sret.op = "get_average"
    /\ acc.sum = -7 /\ acc.count = 2
    /\ sret.outcome = "returned" /\ sret.value = -3

\* C12 (as claimed): AvgSum::update completes for every accumulator and every
\* argument pair, also when the running sum or count leaves its range.
C12_UpdateIsTotal ==
    sret.op = "update" => (acc.ok /\ acc2.ok /\ part.ok)

\* ------------------------------------------------ frame of an insert
\* Map m2 is map m1 with the slot at t set to v and every other slot as it was.
OnlySlotSet(m1, m2, t, v) ==
    /\ DOMAIN m2 = DOMAIN m1 \cup {t}
    /\ m2[t] = v
    /\ \A u \in DOMAIN m1 \ {t} : m2[u] = m1[u]

\* C17: an insert with channel index idx sets the slot at time_t in the Auction
\* mapping when idx = 0 and in the BuyItNow mapping for every other idx, and
\* leaves the other mapping and every other slot as they were.
C17_InsertChangesOneSlot ==
    [][ret'.op = "update" =>
          \A idx \in IdxVals, time_t \in Times, avg_ah \in Samples :
              AvgVec_update(avg_ah, time_t, idx) =>
                  IF idx = 0
                  THEN OnlySlotSet(auctions, auctions', time_t, avg_ah) /\ bins' = bins
                  ELSE OnlySlotSet(bins, bins', time_t, avg_ah) /\ auctions' = auctions]_vars

\* C17 witness: an insert has just run on a store whose two channels hold
\* different timestamps and different samples.
C17_Witness ==
    /\ ret.op = "update"
    /\ DOMAIN auctions # {} /\ DOMAIN bins # {}
    /\ DOMAIN auctions # DOMAIN bins
    /\ \E t \in DOMAIN auctions, u \in DOMAIN bins : auctions[t] # bins[u]

\* ------------------------------------------------ claims about concurrent calls
\* The map and key producer p was asked to insert at.
TargetMap(p) == IF prod[p].idx = 0 THEN "auctions" ELSE "bins"

SameTarget(p, q) ==
    /\ prod[q].pc # "idle"
    /\ TargetMap(q) = TargetMap(p)
    /\ prod[q].time_t = prod[p].time_t

\* C13: once a producer's insert has completed, its (channel, timestamp) key
\* is present in that channel's mapping from then on, whatever the others do;
\* the slot holds its sample unless another producer wrote the same key; once
\* all inserts have completed each mapping holds exactly the keys inserted.
C13_NoLostUpdates ==
    /\ \A p \in Producers :
          prod[p].pc = "done" =>
              /\ prod[p].time_t \in DOMAIN MapVal(TargetMap(p))
              /\ \/ MapVal(TargetMap(p))[prod[p].time_t] = prod[p].avg_ah
                 \/ \E q \in Producers \ {p} :
                       SameTarget(p, q) /\ prod[q].pc \in {"half", "done"}
    /\ (\A p \in Producers : prod[p].pc = "done") =>
          \A m \in Maps :
              DOMAIN MapVal(m) = {prod[p].time_t : p \in {x \in Producers : TargetMap(x) = m}}

\* C13 witness: two producers have inserted at different timestamps of the same
\* channel, their calls overlapping a running get_average, and both are there.
C13_Witness ==
    /\ \A p \in Producers : prod[p].pc = "done"
    /\ prod["p1"].idx = prod["p2"].idx
    /\ prod["p1"].time_t # prod["p2"].time_t
    /\ obs.overlap = 2
    /\ Cardinality(DOMAIN MapVal(TargetMap("p1"))) = 2

\* C14: whatever a read sees at a key, and whatever a key holds whenever no
\* insert is in progress on its shard, is the complete (price, sales) pair of
\* one of the inserts made there, never a mix of two.
C14_InsertAtomicPerKey ==
    /\ ~obs.torn
    /\ \A m \in Maps : \A t \in DOMAIN MapVal(m) :
          locks[m][ShardOf(t)].w = "none" => MapVal(m)[t] \in Written(m, t)

\* C14 witness: a second insert at a key is half done (the slot holds one
\* write's price with the other's sales) while get_average waits to read that
\* very shard.
C14_Witness ==
    \E p \in Producers :
        /\ prod[p].pc = "half"
        /\ prod[p].time_t \in DOMAIN MapVal(TargetMap(p))
        /\ MapVal(TargetMap(p))[prod[p].time_t] \notin Written(TargetMap(p), prod[p].time_t)
        /\ avg.pc = "iter"
        /\ avg.m = TargetMap(p)
        /\ avg.s = ShardOf(prod[p].time_t)

\* C15 (as claimed): when exactly one insert, of a new timestamp, completes
\* while get_average runs, the value returned is the average of the store
\* without that insert or the average of the store with it.
C15_ReadIsAllOrNothing ==
    (avg.pc = "done" /\ obs.overlap = 1 /\ obs.fresh) =>
        \/ ret.value = AvgVec_get_average(obs.snap[1], obs.snap[2], ret.old_method)
        \/ ret.value = AvgVec_get_average(obs.after[1], obs.after[2], ret.old_method)

\* A call is in flight: it has started and has not returned.
InFlight ==
    \/ \E p \in Producers : prod[p].pc \notin {"idle", "done"}
    \/ avg.pc \notin {"idle", "done"}
    \/ sal.pc \notin {"idle", "done"}

\* C16: with every started call scheduled fairly, the inserts, the average
\* read and the combined-sales read all return: from some point on no call is
\* in flight (each caller makes one call, so none is left waiting for ever).
C16_EveryCallReturns == <>[](~InFlight)

\* C16 witness: all four calls are under way; get_sales runs its loop body
\* under a shard's read lock while an insert waits for that shard.
C16_Witness ==
    /\ \A p \in Producers : prod[p].pc \notin {"idle", "done"}
    /\ avg.pc \notin {"idle", "done"}
    /\ sal.pc = "body"
    /\ \E p \in Producers :
          /\ prod[p].pc = "call"
          /\ "sales" \in locks[SelectMap(prod[p].idx)][ShardOf(prod[p].time_t)].r

====
